---- MODULE Spec2Model ----
(***************************************************************************)
(* A model of file_sorter.py: path validation, the Project Discovery Pass, *)
(* the project and file relocation passes, empty-directory reclamation and *)
(* the progress counters, over an explicit model of the filesystem tree.   *)
(*                                                                         *)
(* A path is a sequence of names (strings), a filesystem is a function     *)
(* from the existing paths to nodes.  Directory listings have no order in  *)
(* the operating system, so every place where the code iterates a listing  *)
(* is a nondeterministic choice of the order.                              *)
(***************************************************************************)
EXTENDS Integers, Sequences, FiniteSets, TLC

\* ------------------------------------------------------------------ bounds
\* Largest number of files of the initial tree.
MaxFiles == 2
\* Largest number of operations (moves, rmdirs) of one call that fail for a
\* reason outside the tree, such as a permission or an I/O error.
MaxFaults == 1
\* Largest number of names taken in the directory a function called by itself
\* looks in (besides the directories filled up to the search's bound).
MaxTaken == 3

\* --------------------------------------------------------- configuration
FILE_CATEGORIES == ("txt" :> <<"Documents", "Text">>)
DEFAULT_CATEGORY == <<"Miscellaneous", "Other">>
PROJECT_FILE_MARKERS == {".git"}
PROJECT_DIR_MARKERS == {"node_modules"}
SPECIAL_APP_DIRS_AS_FILES == {".app"}
\* The bound of the unique-name search.
MaxCollisions == 10000

\* -------------------------------------------------------------- strings
Chr(s, i) == SubSeq(s, i, i)

\* str.rfind, 1-based; 0 when c does not occur in s.
RFind(s, c) ==
  LET hits == {i \in 1..Len(s) : Chr(s, i) = c}
  IN IF hits = {} THEN 0 ELSE CHOOSE i \in hits : \A j \in hits : j <= i

\* pathlib's PurePath.suffix: from the last dot, unless that dot is the first
\* or the last character of the name.
PathSuffix(name) ==
  LET i == RFind(name, ".")
  IN IF 1 < i /\ i < Len(name) THEN SubSeq(name, i, Len(name)) ELSE ""

\* pathlib's PurePath.stem: the name without its suffix.
PathStem(name) ==
  LET i == RFind(name, ".")
  IN IF 1 < i /\ i < Len(name) THEN SubSeq(name, 1, i - 1) ELSE name

\* str.lower on a character (of the ASCII letters).
LowerChar(c) ==
  LET upper == "ABCDEFGHIJKLMNOPQRSTUVWXYZ"
      lower == "abcdefghijklmnopqrstuvwxyz"
      at == {i \in 1..Len(upper) : Chr(upper, i) = c}
  IN IF at = {} THEN c ELSE Chr(lower, CHOOSE i \in at : TRUE)

RECURSIVE Lower(_)
Lower(s) == IF s = "" THEN "" ELSE LowerChar(Chr(s, 1)) \o Lower(Tail(s))

RECURSIVE LStripDots(_)
LStripDots(s) ==
  IF s # "" /\ Chr(s, 1) = "." THEN LStripDots(Tail(s)) ELSE s

EndsWith(s, suffix) ==
  /\ Len(suffix) <= Len(s)
  /\ SubSeq(s, Len(s) - Len(suffix) + 1, Len(s)) = suffix

Digit(d) == Chr("0123456789", d + 1)

RECURSIVE Decimal(_)
Decimal(n) == IF n < 10 THEN Digit(n) ELSE Decimal(n \div 10) \o Digit(n % 10)

\* ---------------------------------------------------------------- paths
Parent(p) == SubSeq(p, 1, Len(p) - 1)
Name(p) == p[Len(p)]
Join(p, name) == Append(p, name)

\* q is p or lies beneath p.
IsPrefix(p, q) == Len(p) <= Len(q) /\ SubSeq(q, 1, Len(p)) = p

\* p is a strict ancestor of q (p in q.parents).
InParents(p, q) == Len(p) < Len(q) /\ SubSeq(q, 1, Len(p)) = p

\* q with its prefix src replaced by dst.
Rebase(q, src, dst) == dst \o SubSeq(q, Len(src) + 1, Len(q))

\* ----------------------------------------------------------- filesystem
Exists(f, p) == p \in DOMAIN f
IsDir(f, p) == p \in DOMAIN f /\ f[p].kind = "dir"
Children(f, p) == {q \in DOMAIN f : Len(q) = Len(p) + 1 /\ IsPrefix(p, q)}
Listable(f, p) == IsDir(f, p) /\ f[p].readable

\* The names os.listdir returns (as a set: the order is the system's).
ListNames(f, p) == {Name(q) : q \in Children(f, p)}
SubDirs(f, p) == {q \in Children(f, p) : f[q].kind = "dir"}
NonDirs(f, p) == {q \in Children(f, p) : f[q].kind # "dir"}

\* The files of f, by identity: where each one is.
FileIds(f) == {f[p].id : p \in {q \in DOMAIN f : f[q].kind = "file"}}

\* The part of f at and beneath p.
Subtree(f, p) == {q \in DOMAIN f : IsPrefix(p, q)}

DirNode(p) == [kind |-> "dir", id |-> p, readable |-> TRUE]

\* Path.mkdir(parents=True, exist_ok=True): fails, changing nothing, when a
\* component of the path is a file; creates every missing directory otherwise.
MkdirOk(f, p) == \A n \in 1..Len(p) :
  LET q == SubSeq(p, 1, n) IN Exists(f, q) => IsDir(f, q)

MkdirP(f, p) ==
  LET new == {SubSeq(p, 1, n) : n \in 1..Len(p)} \ DOMAIN f
  IN [q \in DOMAIN f \cup new |-> IF q \in DOMAIN f THEN f[q] ELSE DirNode(q)]

\* os.rename(src, dst) where it succeeds: the subtree at src is at dst, and a
\* file that was at dst is replaced.
Rename(f, src, dst) ==
  LET moved == Subtree(f, src)
      keep == (DOMAIN f \ moved) \ {dst}
      new == {Rebase(q, src, dst) : q \in moved}
  IN [q \in keep \cup new |->
        IF q \in new THEN f[Rebase(q, dst, src)] ELSE f[q]]

\* shutil.move(src, dst): into dst when dst is a directory (an error when
\* the name is taken there), onto dst otherwise.
MoveTarget(f, src, dst) == IF IsDir(f, dst) THEN Join(dst, Name(src)) ELSE dst

MoveOk(f, src, dst) ==
  LET real_dst == MoveTarget(f, src, dst)
  IN /\ Exists(f, src)
     /\ IsDir(f, dst) => ~Exists(f, real_dst)
     /\ IsDir(f, Parent(real_dst))
     /\ ~IsPrefix(src, real_dst)
     /\ IsDir(f, src) => ~Exists(f, real_dst)

ShutilMove(f, src, dst) == Rename(f, src, MoveTarget(f, src, dst))

\* ------------------------------------------------------- pure functions
\* get_category_for_file comparing the extension as it is written.
get_category_for_file_CaseSensitive(filename) ==
  LET extension == LStripDots(PathSuffix(filename))
  IN IF extension \in DOMAIN FILE_CATEGORIES
       THEN FILE_CATEGORIES[extension]
       ELSE DEFAULT_CATEGORY

\* get_category_for_file: the extension is the suffix, lower-cased, without
\* its leading dots.
get_category_for_file(filename) ==
  LET extension == LStripDots(Lower(PathSuffix(filename)))
  IN IF extension \in DOMAIN FILE_CATEGORIES
       THEN FILE_CATEGORIES[extension]
       ELSE DEFAULT_CATEGORY

\* The listing of a directory got whether or not it can be read.
cache_directory_contents_NeverFails(f, directory) ==
  [ok |-> TRUE, names |-> ListNames(f, directory)]

\* cache_directory_contents: the listing, or None (ok = FALSE) when the
\* directory cannot be read.
cache_directory_contents(f, directory) ==
  IF Listable(f, directory)
    THEN [ok |-> TRUE, names |-> ListNames(f, directory)]
    ELSE [ok |-> FALSE, names |-> {}]

\* Python's truth value of the cached listing: None and [] are false.
Truthy(contents) == contents.ok /\ contents.names # {}

\* The classifier looking at the markers only.
is_project_or_app_folder_MarkersOnly(dir_path, dir_contents) ==
  \E item_name \in dir_contents :
    item_name \in PROJECT_FILE_MARKERS \/ item_name \in PROJECT_DIR_MARKERS

is_project_or_app_folder(dir_path, dir_contents) ==
  \/ \E suffix \in SPECIAL_APP_DIRS_AS_FILES : EndsWith(Name(dir_path), suffix)
  \/ \E item_name \in dir_contents :
       item_name \in PROJECT_FILE_MARKERS \/ item_name \in PROJECT_DIR_MARKERS

\* The directories os.walk reaches from top: a directory that cannot be
\* listed is skipped without a word, with everything beneath it.
RECURSIVE Walked(_, _)
Walked(f, top) ==
  IF ~Listable(f, top) THEN {}
  ELSE {top} \cup UNION {Walked(f, d) : d \in SubDirs(f, top)}

RECURSIVE SumOver(_, _, _)
SumOver(f, S, done) ==
  IF S = {} THEN done
  ELSE LET d == CHOOSE x \in S : TRUE
       IN SumOver(f, S \ {d}, done + Cardinality(Children(f, d)))

\* count_items_to_process: files plus directories of every directory walked.
count_items_to_process(f, input_dir) == SumOver(f, Walked(f, input_dir), 0)

\* generate_unique_filename, line 300: the path tried for a counter.
NewPath(target_file_path, counter) ==
  LET name == Name(target_file_path)
  IN Join(Parent(target_file_path),
          PathStem(name) \o " (" \o Decimal(counter) \o ")" \o PathSuffix(name))

\* The search going one past its bound when every path up to it is taken.
RECURSIVE UniqueFrom_OneMore(_, _, _)
UniqueFrom_OneMore(f, target_file_path, counter) ==
  LET last == IF 2 * counter < MaxCollisions THEN 2 * counter ELSE MaxCollisions
      free == {n \in counter..last : ~Exists(f, NewPath(target_file_path, n))}
  IN IF free # {}
       THEN NewPath(target_file_path,
                    CHOOSE n \in free : \A m \in free : n <= m)
     ELSE IF last + 1 > MaxCollisions
       THEN NewPath(target_file_path, MaxCollisions + 1)
     ELSE UniqueFrom_OneMore(f, target_file_path, last + 1)

\* The search taking its first path without looking whether it is free.
UniqueFrom_FirstTried(f, target_file_path, counter) ==
  NewPath(target_file_path, counter)

\* generate_unique_filename, from the loop's counter on: the first free path
\* among those of counter, counter + 1, ... up to MaxCollisions, the target
\* when there is none.  The counters are searched a stretch at a time, each
\* stretch twice as long as the one before.
RECURSIVE UniqueFrom(_, _, _)
UniqueFrom(f, target_file_path, counter) ==
  LET last == IF 2 * counter < MaxCollisions THEN 2 * counter ELSE MaxCollisions
      free == {n \in counter..last : ~Exists(f, NewPath(target_file_path, n))}
  IN IF free # {}
       THEN NewPath(target_file_path,
                    CHOOSE n \in free : \A m \in free : n <= m)
     ELSE IF last + 1 > MaxCollisions THEN target_file_path
     ELSE UniqueFrom(f, target_file_path, last + 1)

\* generate_unique_filename without its search: the name asked for.
generate_unique_filename_NoSearch(f, target_file_path) == target_file_path

generate_unique_filename(f, target_file_path) ==
  IF ~Exists(f, target_file_path) THEN target_file_path
  ELSE UniqueFrom(f, target_file_path, 1)

\* The try block of validate_input_paths that looks for an output inside the
\* input: relative_to raises ValueError when it is not inside, the code
\* raises ValueError itself when it is.
NestedCheckRaises(input_dir, output_dir) ==
  IF IsPrefix(input_dir, output_dir)
    THEN "ValueError"
    ELSE "ValueError"

\* The handler around that block: `except ValueError: pass`.
NestedCheck(input_dir, output_dir) ==
  IF NestedCheckRaises(input_dir, output_dir) = "ValueError"
    THEN "" ELSE NestedCheckRaises(input_dir, output_dir)

DefaultOutput(input_dir) ==
  Join(Parent(input_dir), Name(input_dir) \o "_Sorted")

\* validate_input_paths without its comparison of the two paths.
validate_input_paths_NoSameCheck(f, input_dir_str, output_dir_str) ==
  LET input_dir == input_dir_str
      output_dir == IF output_dir_str # <<>> THEN output_dir_str
                    ELSE DefaultOutput(input_dir)
      raised == IF ~Exists(f, input_dir) THEN "FileNotFoundError"
                ELSE IF ~IsDir(f, input_dir) THEN "NotADirectoryError"
                ELSE IF ~f[input_dir].readable THEN "PermissionError"
                ELSE NestedCheck(input_dir, output_dir)
  IN [raised |-> raised, input_dir |-> input_dir, output_dir |-> output_dir]

\* validate_input_paths: what it raises ("" when it returns) and the pair it
\* returns.  An absent output_dir_str is the empty path.
validate_input_paths(f, input_dir_str, output_dir_str) ==
  LET input_dir == input_dir_str
      output_dir == IF output_dir_str # <<>> THEN output_dir_str
                    ELSE DefaultOutput(input_dir)
      raised == IF ~Exists(f, input_dir) THEN "FileNotFoundError"
                ELSE IF ~IsDir(f, input_dir) THEN "NotADirectoryError"
                ELSE IF ~f[input_dir].readable THEN "PermissionError"
                ELSE IF input_dir = output_dir THEN "ValueError"
                ELSE NestedCheck(input_dir, output_dir)
  IN [raised |-> raised, input_dir |-> input_dir, output_dir |-> output_dir]

\* ---------------------------------------------------------------- state
VARIABLES
  fs,                   \* the filesystem
  fs0,                  \* the filesystem when the current call began
  input_dir_str,        \* sort_files' arguments
  output_dir_str,
  dry_run,
  delete_empty_dirs,
  input_dir,            \* the validated paths
  output_dir,
  pc,                   \* where sort_files is
  raised,               \* the exception that ended the call, "" if none
  result,               \* sort_files' return value, once pc = "done"
  progress,             \* SortingProgress
  processed_projects,
  directories_to_check,
  projects_to_move,     \* identify_projects' list of <<source, destination>>
  project_index,        \* the next entry of it that sort_files moves
  stack,                \* os.walk's pending directories, a stack of sibling sets
  current_root_path,    \* the File Relocation Pass' current directory
  files,                \* and its files still to handle
  sorted_dirs,          \* cleanup's candidates still to examine
  deleted_count,
  log,                  \* the records logged: moves decided, failures to list or delete
  prev_log,             \* what the caller kept of the call that came before
  faults,               \* the operations of this call that failed from outside
  call,                 \* 1 for the first call of sort_files, 2 for the second
  unit                  \* the last function called by itself: name, arguments, value

vars == <<fs, fs0, input_dir_str, output_dir_str, dry_run, delete_empty_dirs,
          input_dir, output_dir, pc, raised, result, progress,
          processed_projects, directories_to_check, projects_to_move,
          project_index, stack, current_root_path, files, sorted_dirs, deleted_count, log,
          prev_log, faults, call, unit>>

args == <<input_dir_str, output_dir_str, dry_run, delete_empty_dirs>>
paths == <<input_dir, output_dir>>
walk == <<current_root_path, files>>

\* -------------------------------------------------------- initial trees
In == <<"in">>
Nested == <<"in", "a">>

\* The files an initial tree is made of, each with the directories it is in.
FileUniverse ==
  { <<"in", "f.txt">>, <<"in", ".git">>,
    <<"in", "a", "f.txt">>, <<"in", "a", ".git">>,
    <<"in", "a", "p", ".git">>,
    <<"in", "p", ".git">>,
    <<"in", "b", "p", ".git">>,
    <<"in", "x.app", "f.txt">> }

\* The directories an initial tree may hold besides those of its files.
DirUniverse == { <<"in", "a">>, <<"in", "a", "p">>, <<"in", "x.app">> }

\* The input root and the directories between it and p.
DirsTo(p) == {SubSeq(p, 1, n) : n \in 1..(Len(p) - 1)}

\* The directories of the tree with files F and directories D.
DirsOf(F, D) == UNION {DirsTo(p) : p \in F \cup D} \cup D \cup {In}

\* The tree as a filesystem, the directories of `unreadable` not listable.
MakeFs(F, D, unreadable) ==
  [p \in F \cup DirsOf(F, D) |->
     [kind |-> IF p \in F THEN "file" ELSE "dir",
      id |-> p,
      readable |-> p \notin unreadable]]

\* No function has been called by itself.
NoCall == [fn |-> "", args |-> <<>>, value |-> <<>>]

NoProgress ==
  [total_items |-> 0, processed_items |-> 0, projects_moved |-> 0,
   files_moved |-> 0, errors |-> 0]

\* The state of a call that has not begun: nothing of it is set.
Fresh ==
  /\ input_dir = <<>> /\ output_dir = <<>>
  /\ pc = "call" /\ raised = "" /\ result = FALSE
  /\ progress = NoProgress
  /\ processed_projects = {} /\ directories_to_check = {}
  /\ projects_to_move = <<>> /\ project_index = 1 /\ stack = <<>>
  /\ current_root_path = <<>> /\ files = {}
  /\ sorted_dirs = {} /\ deleted_count = 0
  /\ log = {}

Init ==
  /\ \E F \in {X \in SUBSET FileUniverse : Cardinality(X) <= MaxFiles} :
       \E D \in {{}} \cup {{d} : d \in DirUniverse} :
         \E unreadable \in {{}} \cup {{d} : d \in DirsOf(F, D)} :
           fs = MakeFs(F, D, unreadable)
  /\ fs0 = fs
  /\ input_dir_str \in {In, <<"in", "f.txt">>}
  /\ output_dir_str \in {<<>>, In, Nested}
  /\ dry_run \in BOOLEAN
  /\ delete_empty_dirs \in BOOLEAN
  /\ Fresh
  /\ prev_log = {}
  /\ faults = 0
  /\ call = 1
  /\ unit = NoCall

\* -------------------------------------------------------------- os.walk
\* The walk's pending directories are a stack of sets of siblings: the next
\* directory walked is any member of the top set.
\* The walk not descending into the subdirectories.
Push_Nothing(frame, st) == st

Push(frame, st) == IF frame = {} THEN st ELSE <<frame>> \o st

\* The walk never done with a directory.
Pop_Nothing(st, d) == st

Pop(st, d) ==
  IF Head(st) = {d} THEN Tail(st) ELSE <<Head(st) \ {d}>> \o Tail(st)

\* The orders in which a listing can present the members of S.
Orderings(S) ==
  {o \in [1..Cardinality(S) -> S] : \A i, j \in DOMAIN o : i # j => o[i] # o[j]}

\* What the environment may do to the next operation: fail it or not.
Faults == IF ~dry_run /\ faults < MaxFaults THEN BOOLEAN ELSE {FALSE}

\* What the environment may do to a lookup of generate_unique_filename:
\* Path.exists raises the OSError that is not "no such file" (a name too
\* long, a directory that cannot be searched), in a dry run as in a real one.
StatFaults == IF faults < MaxFaults THEN BOOLEAN ELSE {FALSE}

\* A record of the log: a move decided ("project", "file") with its outcome,
\* a directory that could not be listed ("list"), one that could not be
\* deleted ("delete"), the exception that ended the run ("unexpected").
Logged(kind, source, target, ok) ==
  [kind |-> kind, source |-> source, target |-> target, ok |-> ok]

\* cache_directory_contents, line 194: the warning for each directory of S
\* that cannot be read.
ListWarnings(f, S) ==
  {Logged("list", d, <<>>, FALSE) : d \in {x \in S : ~Listable(f, x)}}

\* Whether path is a claimed project or beneath one.
Claimed(processed, path) ==
  \E q \in processed : q = path \/ InParents(q, path)

\* -------------------------------------------------------------- actions
\* sort_files, lines 364-369: validation; a failure is logged and returns False.
Validate ==
  /\ pc = "call"
  /\ LET v == validate_input_paths(fs, input_dir_str, output_dir_str)
     IN IF v.raised # ""
          THEN /\ raised' = v.raised
               /\ result' = FALSE
               /\ pc' = "done"
               /\ UNCHANGED paths
          ELSE /\ input_dir' = v.input_dir
               /\ output_dir' = v.output_dir
               /\ pc' = "count"
               /\ UNCHANGED <<raised, result>>
  /\ UNCHANGED <<fs, fs0, args, progress, processed_projects,
                 directories_to_check, projects_to_move, project_index, stack,
                 walk, sorted_dirs, deleted_count, log, prev_log, faults, call, unit>>

\* sort_files, lines 377-391: the tracker, the two sets, the start of Discovery.
CountItems ==
  /\ pc = "count"
  /\ progress' = [NoProgress EXCEPT
                    !.total_items = count_items_to_process(fs, input_dir)]
  /\ processed_projects' = {}
  /\ directories_to_check' = {}
  /\ projects_to_move' = <<>>
  /\ stack' = <<{input_dir}>>
  /\ pc' = "discover"
  /\ UNCHANGED <<fs, fs0, args, paths, raised, result, project_index, walk,
                 sorted_dirs, deleted_count, log, prev_log, faults, call, unit>>

\* The project directories among a directory's subdirectories.
ProjectChildren(f, subs, processed) ==
  {d \in subs : /\ ~Claimed(processed, d)
                /\ Truthy(cache_directory_contents(f, d))
                /\ is_project_or_app_folder(d, cache_directory_contents(f, d).names)}

\* The walk descending into the projects it has just found as well.
Descend_KeepFound(subs, skipped, found) == subs \ skipped

\* identify_projects, lines 246-265: the subdirectories the walk still descends
\* into: not those already processed, not those just found to be projects.
Descend(subs, skipped, found) == subs \ (skipped \cup found)

Target(parent, name) == Join(Join(parent, "Applications_And_Projects"), name)

\* One iteration of identify_projects' walk.
DiscoverStep ==
  /\ pc = "discover" /\ stack # <<>>
  /\ \E top \in Head(stack) :
       LET rest == Pop(stack, top)
           contents == cache_directory_contents(fs, top)
           subs == SubDirs(fs, top)
           skipped == {d \in subs : Claimed(processed_projects, d)}
           found == ProjectChildren(fs, subs, processed_projects)
       IN IF ~Listable(fs, top) \/ Claimed(processed_projects, top)
            THEN /\ stack' = rest
                 /\ UNCHANGED <<projects_to_move, log>>
          ELSE IF Truthy(contents) /\ is_project_or_app_folder(top, contents.names)
            THEN /\ projects_to_move' =
                      Append(projects_to_move,
                             <<top, Target(Parent(top), Name(top))>>)
                 /\ stack' = rest
                 /\ UNCHANGED log
          ELSE \E o \in Orderings(found) :
                 /\ projects_to_move' = projects_to_move \o
                      [i \in DOMAIN o |-> <<o[i], Target(top, Name(o[i]))>>]
                 /\ stack' = Push(Descend(subs, skipped, found), rest)
                 /\ log' = log \cup ListWarnings(fs, subs \ skipped)
  /\ UNCHANGED <<fs, fs0, args, paths, pc, raised, result, progress,
                 processed_projects, directories_to_check, project_index, walk,
                 sorted_dirs, deleted_count, prev_log, faults, call, unit>>

\* identify_projects returns.
DiscoverDone ==
  /\ pc = "discover" /\ stack = <<>>
  /\ pc' = "projects"
  /\ project_index' = 1
  /\ UNCHANGED <<fs, fs0, args, paths, raised, result, progress,
                 processed_projects, directories_to_check, projects_to_move,
                 stack, walk, sorted_dirs, deleted_count, log, prev_log, faults, call, unit>>

\* move_project, line 274.
TargetProjectDir(source, destination, out) ==
  out \o SubSeq(destination, Len(Parent(source)) + 1, Len(destination))

\* sort_files, lines 395-398: what a successful project move adds to the
\* claimed set.
ClaimMoved(processed, source, ok) ==
  IF ok THEN processed \cup {source} ELSE processed

\* The outcome of mkdir(parents) followed by shutil.move, with `fault` the
\* move raising for a reason outside the tree (permissions, I/O).
Moved(f, source, target, fault) ==
  IF ~MkdirOk(f, Parent(target)) THEN [ok |-> FALSE, fs |-> f]
  ELSE LET f1 == MkdirP(f, Parent(target))
       IN IF fault \/ ~MoveOk(f1, source, target)
            THEN [ok |-> FALSE, fs |-> f1]
            ELSE [ok |-> TRUE, fs |-> ShutilMove(f1, source, target)]

\* move_project: nothing is touched in a dry run.
move_project(f, source, target, dry, fault) ==
  IF dry THEN [ok |-> TRUE, fs |-> f] ELSE Moved(f, source, target, fault)

\* The counters with a project's failed move not counted as an error.
TallyProject_ErrorUncounted(p, ok) ==
  [p EXCEPT !.projects_moved = @ + (IF ok THEN 1 ELSE 0),
            !.processed_items = @ + 1]

\* sort_files, lines 394-400: the counters after a project's move.
TallyProject(p, ok) ==
  [p EXCEPT !.projects_moved = @ + (IF ok THEN 1 ELSE 0),
            !.errors = @ + (IF ok THEN 0 ELSE 1),
            !.processed_items = @ + 1]

\* One iteration of sort_files' loop over the projects, lines 393-402.
MoveProjectStep ==
  /\ pc = "projects" /\ project_index <= Len(projects_to_move)
  /\ LET source == projects_to_move[project_index][1]
         destination == projects_to_move[project_index][2]
         target == TargetProjectDir(source, destination, output_dir)
     IN \E fault \in Faults :
          LET r == move_project(fs, source, target, dry_run, fault)
          IN /\ fs' = r.fs
             /\ faults' = faults + (IF fault THEN 1 ELSE 0)
             /\ processed_projects' = ClaimMoved(processed_projects, source, r.ok)
             /\ progress' = TallyProject(progress, r.ok)
             /\ log' = log \cup {Logged("project", source, target, r.ok)}
  /\ project_index' = project_index + 1
  /\ UNCHANGED <<fs0, args, paths, pc, raised, result, directories_to_check,
                 projects_to_move, stack, walk, sorted_dirs, deleted_count,
                 prev_log, call, unit>>

\* The File Relocation Pass' walk beginning while projects are still to move.
ProjectsDone_Early ==
  /\ pc = "projects"
  /\ pc' = "walk"
  /\ stack' = <<{input_dir}>>
  /\ UNCHANGED <<fs, fs0, args, paths, raised, result, progress,
                 processed_projects, directories_to_check, projects_to_move,
                 project_index, walk, sorted_dirs, deleted_count, log,
                 prev_log, faults, call, unit>>

\* The loop over the projects ends; the File Relocation Pass' walk begins.
ProjectsDone ==
  /\ pc = "projects" /\ project_index > Len(projects_to_move)
  /\ pc' = "walk"
  /\ stack' = <<{input_dir}>>
  /\ UNCHANGED <<fs, fs0, args, paths, raised, result, progress,
                 processed_projects, directories_to_check, projects_to_move,
                 project_index, walk, sorted_dirs, deleted_count, log,
                 prev_log, faults, call, unit>>

\* One iteration of the File Relocation Pass' walk, lines 406-418: the next
\* directory is listed, and skipped when it is claimed; its subdirectories as
\* listed now are what os.walk descends into after its files.
WalkNext ==
  /\ pc = "walk" /\ files = {} /\ stack # <<>>
  /\ \E top \in Head(stack) :
       IF ~Listable(fs, top) \/ Claimed(processed_projects, top)
         THEN /\ stack' = Pop(stack, top)
              /\ UNCHANGED <<directories_to_check, walk>>
         ELSE /\ directories_to_check' =
                   IF delete_empty_dirs
                     THEN directories_to_check \cup {top}
                     ELSE directories_to_check
              /\ current_root_path' = top
              /\ files' = {Name(q) : q \in NonDirs(fs, top)}
              /\ stack' = Push(SubDirs(fs, top), Pop(stack, top))
  /\ UNCHANGED <<fs, fs0, args, paths, pc, raised, result, progress,
                 processed_projects, projects_to_move, project_index,
                 sorted_dirs, deleted_count, log, prev_log, faults, call, unit>>

\* categorize_and_move_file, lines 312-314: where the file is to go.
TargetFilePath(f, file_path, out) ==
  LET target_file_dir == out \o get_category_for_file(Name(file_path))
  IN generate_unique_filename(f, Join(target_file_dir, Name(file_path)))

\* categorize_and_move_file moving the file whatever dry_run says.
categorize_and_move_file_NoDryRun(f, file_path, target, dry, fault) ==
  Moved(f, file_path, target, fault)

\* categorize_and_move_file: nothing is touched in a dry run.
categorize_and_move_file(f, file_path, target, dry, fault) ==
  IF dry THEN [ok |-> TRUE, fs |-> f] ELSE Moved(f, file_path, target, fault)

\* The counters with every file counted as moved, a failed one as an error
\* too.
TallyFile_CountsBoth(p, ok) ==
  [p EXCEPT !.files_moved = @ + 1,
            !.errors = @ + (IF ok THEN 0 ELSE 1),
            !.processed_items = @ + 1]

\* The counters with a file's failed move not counted as an error.
TallyFile_NoError(p, ok) ==
  [p EXCEPT !.files_moved = @ + (IF ok THEN 1 ELSE 0),
            !.processed_items = @ + 1]

\* sort_files, lines 427-432: the counters after a file's move.
TallyFile(p, ok) ==
  [p EXCEPT !.files_moved = @ + (IF ok THEN 1 ELSE 0),
            !.errors = @ + (IF ok THEN 0 ELSE 1),
            !.processed_items = @ + 1]

\* The exception leaving sort_files for its caller.
Unexpected_Propagates(exc) ==
  [raised |-> exc, result |-> FALSE, pc |-> "propagated"]

\* sort_files, lines 452-454: `except Exception` logs the exception and
\* returns False.
Unexpected(exc) == [raised |-> exc, result |-> FALSE, pc |-> "done"]

\* One iteration of the loop over a directory's files, lines 420-434.  The
\* lookups of generate_unique_filename (line 314) are outside the try block of
\* categorize_and_move_file: an exception of theirs ends sort_files in its
\* `except Exception`, lines 452-454, which logs it and returns False.
ProcessFile ==
  /\ pc = "walk" /\ files # {}
  /\ \E filename \in files :
       LET file_path == Join(current_root_path, filename)
           target == TargetFilePath(fs, file_path, output_dir)
       IN /\ files' = files \ {filename}
          /\ IF \E q \in processed_projects : InParents(q, file_path)
               THEN UNCHANGED <<fs, progress, log, faults, pc, raised, result>>
               ELSE \E stat_fault \in StatFaults :
                      IF stat_fault
                        THEN /\ raised' = Unexpected("OSError").raised
                             /\ result' = Unexpected("OSError").result
                             /\ pc' = Unexpected("OSError").pc
                             /\ faults' = faults + 1
                             /\ log' = log \cup
                                  {Logged("unexpected", file_path, <<>>, FALSE)}
                             /\ UNCHANGED <<fs, progress>>
                        ELSE \E fault \in Faults :
                               LET r == categorize_and_move_file(
                                          fs, file_path, target, dry_run, fault)
                               IN /\ fs' = r.fs
                                  /\ faults' = faults + (IF fault THEN 1 ELSE 0)
                                  /\ progress' = TallyFile(progress, r.ok)
                                  /\ log' = log \cup
                                       {Logged("file", file_path, target, r.ok)}
                                  /\ UNCHANGED <<pc, raised, result>>
  /\ UNCHANGED <<fs0, args, paths, processed_projects,
                 directories_to_check, projects_to_move, project_index, stack,
                 current_root_path, sorted_dirs, deleted_count, prev_log,
                 call, unit>>

\* The walk ends, lines 436-439; cleanup_empty_directories returns at once in
\* a dry run, lines 331-332.
WalkDone ==
  /\ pc = "walk" /\ files = {} /\ stack = <<>>
  /\ IF delete_empty_dirs
       THEN /\ pc' = "cleanup"
            /\ sorted_dirs' = IF dry_run THEN {} ELSE directories_to_check
            /\ deleted_count' = 0
       ELSE /\ pc' = "report"
            /\ UNCHANGED <<sorted_dirs, deleted_count>>
  /\ UNCHANGED <<fs, fs0, args, paths, raised, result, progress,
                 processed_projects, directories_to_check, projects_to_move,
                 project_index, stack, walk, log, prev_log, faults, call, unit>>

\* The candidates examined from the top down.
Deepest_ShallowestFirst(S) == {d \in S : \A e \in S : Len(d) <= Len(e)}

\* The candidates examined in any order.
Deepest_AnyOrder(S) == S

\* The candidates cleanup examines next: the deepest ones.
Deepest(S) == {d \in S : \A e \in S : Len(e) <= Len(d)}

Rmdir(f, p) == [q \in DOMAIN f \ {p} |-> f[q]]

\* Every candidate taken for empty.
IsEmptyDir_Always(f, p) == TRUE

\* cleanup_empty_directories, line 348: `not any(dir_path.iterdir())`.
IsEmptyDir(f, p) == Children(f, p) = {}

\* One iteration of cleanup_empty_directories' loop, lines 340-353; `fault`
\* is rmdir raising, and iterdir raises on a directory that cannot be read.
CleanupStep ==
  /\ pc = "cleanup" /\ sorted_dirs # {}
  /\ \E dir_path \in Deepest(sorted_dirs) :
       /\ sorted_dirs' = sorted_dirs \ {dir_path}
       /\ IF dir_path = input_dir \/ ~IsDir(fs, dir_path)
            THEN UNCHANGED <<fs, deleted_count, log, faults>>
          ELSE IF ~Listable(fs, dir_path)
            THEN /\ log' = log \cup {Logged("delete", dir_path, <<>>, FALSE)}
                 /\ UNCHANGED <<fs, deleted_count, faults>>
          ELSE IF ~IsEmptyDir(fs, dir_path)
            THEN UNCHANGED <<fs, deleted_count, log, faults>>
          ELSE \E fault \in Faults :
                 /\ faults' = faults + (IF fault THEN 1 ELSE 0)
                 /\ IF fault
                      THEN /\ log' = log \cup
                                {Logged("delete", dir_path, <<>>, FALSE)}
                           /\ UNCHANGED <<fs, deleted_count>>
                      ELSE /\ fs' = Rmdir(fs, dir_path)
                           /\ deleted_count' = deleted_count + 1
                           /\ UNCHANGED log
  /\ UNCHANGED <<fs0, args, paths, pc, raised, result, progress,
                 processed_projects, directories_to_check, projects_to_move,
                 project_index, stack, walk, prev_log, call, unit>>

CleanupDone ==
  /\ pc = "cleanup" /\ sorted_dirs = {}
  /\ pc' = "report"
  /\ UNCHANGED <<fs, fs0, args, paths, raised, result, progress,
                 processed_projects, directories_to_check, projects_to_move,
                 project_index, stack, walk, sorted_dirs, deleted_count, log,
                 prev_log, faults, call, unit>>

\* The return value taking a run that moved something for a success.
Succeeded_AnyMove(p) == p.errors = 0 \/ p.files_moved + p.projects_moved > 0

\* sort_files, line 450.
Succeeded(p) == p.errors = 0

\* The final report and the return, lines 443-450.
Report ==
  /\ pc = "report"
  /\ result' = Succeeded(progress)
  /\ pc' = "done"
  /\ UNCHANGED <<fs, fs0, args, paths, raised, progress, processed_projects,
                 directories_to_check, projects_to_move, project_index, stack,
                 walk, sorted_dirs, deleted_count, log, prev_log, faults, call, unit>>

\* The caller sorts for real after a dry run of the same paths, whatever the
\* dry run returned.
Rerun ==
  /\ pc = "done" /\ call = 1 /\ dry_run
  /\ call' = 2
  /\ dry_run' = FALSE
  /\ delete_empty_dirs' \in BOOLEAN
  /\ prev_log' = log
  /\ faults' = 0
  /\ fs0' = fs
  /\ input_dir' = <<>> /\ output_dir' = <<>>
  /\ pc' = "call" /\ raised' = "" /\ result' = FALSE
  /\ progress' = NoProgress
  /\ processed_projects' = {} /\ directories_to_check' = {}
  /\ projects_to_move' = <<>> /\ project_index' = 1 /\ stack' = <<>>
  /\ current_root_path' = <<>> /\ files' = {}
  /\ sorted_dirs' = {} /\ deleted_count' = 0
  /\ log' = {}
  /\ UNCHANGED <<fs, input_dir_str, output_dir_str, unit>>

Next ==
  \/ Validate
  \/ CountItems
  \/ DiscoverStep
  \/ DiscoverDone
  \/ MoveProjectStep
  \/ ProjectsDone
  \/ WalkNext
  \/ ProcessFile
  \/ WalkDone
  \/ CleanupStep
  \/ CleanupDone
  \/ Report

Spec == Init /\ [][Next]_vars

\* The caller's dry run followed by the real one.
NextRerun == Next \/ Rerun

SpecRerun == Init /\ [][NextRerun]_vars

\* Where the directory that was at `source` when the call began is now.
Where(f, source) == {q \in DOMAIN f : f[q].kind = "dir" /\ f[q].id = source}

\* The caller notes where a real run without a failure has left each project,
\* builds the same tree again and sorts it again with the same arguments.
SortAgain ==
  /\ pc = "done" /\ call = 1 /\ ~dry_run
  /\ raised = "" /\ progress.errors = 0 /\ faults = 0
  /\ call' = 2
  /\ prev_log' = {Logged("home", projects_to_move[i][1],
                         Where(fs, projects_to_move[i][1]), TRUE) :
                     i \in DOMAIN projects_to_move}
  /\ fs' = fs0
  /\ input_dir' = <<>> /\ output_dir' = <<>>
  /\ pc' = "call" /\ raised' = "" /\ result' = FALSE
  /\ progress' = NoProgress
  /\ processed_projects' = {} /\ directories_to_check' = {}
  /\ projects_to_move' = <<>> /\ project_index' = 1 /\ stack' = <<>>
  /\ current_root_path' = <<>> /\ files' = {}
  /\ sorted_dirs' = {} /\ deleted_count' = 0
  /\ log' = {}
  /\ UNCHANGED <<fs0, args, faults, unit>>

NextAgain == Next \/ SortAgain

\* The same tree sorted twice.
SpecAgain == Init /\ [][NextAgain]_vars

\* ------------------------------------------------- functions by themselves
\* The functions called by themselves, as the unit tests call them, each
\* once on a tree made for the call: a source file in/test.txt and a category
\* folder with some names taken.
CategoryDir == <<"out">> \o FILE_CATEGORIES["txt"]
SourceFile == <<"in", "test.txt">>

\* The names that may be taken, and asked for, in the category folder.
NameUniverse ==
  { "test.txt", "test (1).txt", "test (2).txt",
    "README", "README (1)", ".env", ".env (1)",
    "a.tar.gz", "a.tar (1).gz" }

\* The category folder holding the files named in N, beside the source file.
DirWith(N) ==
  LET taken == {Join(CategoryDir, n) : n \in N}
      F == taken \cup {SourceFile}
      D == UNION {DirsTo(p) : p \in F \cup {Join(CategoryDir, "x")}}
  IN [p \in F \cup D |->
        [kind |-> IF p \in D THEN "dir" ELSE "file", id |-> p, readable |-> TRUE]]

\* test.txt and its disambiguated names from 1 to MaxCollisions, those of
\* `but` left out.
FilledBut(but) ==
  {"test.txt"} \cup
  {"test (" \o Decimal(k) \o ").txt" : k \in (1..MaxCollisions) \ but}

InitUnit ==
  /\ fs \in {DirWith(N) : N \in {X \in SUBSET NameUniverse :
                                    Cardinality(X) <= MaxTaken}}
           \cup {DirWith(FilledBut({})), DirWith(FilledBut({MaxCollisions}))}
  /\ fs0 = fs
  /\ input_dir_str = In
  /\ output_dir_str = <<"out">>
  /\ dry_run = FALSE
  /\ delete_empty_dirs = FALSE
  /\ Fresh
  /\ prev_log = {}
  /\ faults = 0
  /\ call = 1
  /\ unit = NoCall

\* A function has been called by itself: its name, arguments and value.
Called(fn, arguments, value) == [fn |-> fn, args |-> arguments, value |-> value]

\* generate_unique_filename(target_file_path).
Call_generate_unique_filename ==
  /\ unit = NoCall
  /\ \E name \in NameUniverse :
       LET target_file_path == Join(CategoryDir, name)
       IN unit' = Called("generate_unique_filename", <<target_file_path>>,
                         generate_unique_filename(fs, target_file_path))
  /\ UNCHANGED <<fs, fs0, args, paths, pc, raised, result, progress,
                 processed_projects, directories_to_check, projects_to_move,
                 project_index, stack, walk, sorted_dirs, deleted_count, log,
                 prev_log, faults, call>>

\* categorize_and_move_file(file_path, output_dir), not a dry run: the value
\* is the target it chose and what it returned.
Call_categorize_and_move_file ==
  /\ unit = NoCall
  /\ LET target == TargetFilePath(fs, SourceFile, <<"out">>)
         r == categorize_and_move_file(fs, SourceFile, target, FALSE, FALSE)
     IN /\ fs' = r.fs
        /\ unit' = Called("categorize_and_move_file",
                          <<SourceFile, <<"out">>>>, <<target, r.ok>>)
  /\ UNCHANGED <<fs0, args, paths, pc, raised, result, progress,
                 processed_projects, directories_to_check, projects_to_move,
                 project_index, stack, walk, sorted_dirs, deleted_count, log,
                 prev_log, faults, call>>

\* The file names get_category_for_file is asked about.
FilenameUniverse ==
  { "document.txt", "REPORT.TXT", "Notes.Txt", "README", "archive.tar.gz",
    "unknown.xyz", ".txt", ".TXT", ".env", ".a.txt", "a.", "txt.", "a..txt",
    "TXT", "a.txtx", "a.tx" }

\* get_category_for_file(filename).
Call_get_category_for_file ==
  /\ unit = NoCall
  /\ \E filename \in FilenameUniverse :
       unit' = Called("get_category_for_file", <<filename>>,
                      get_category_for_file(filename))
  /\ UNCHANGED <<fs, fs0, args, paths, pc, raised, result, progress,
                 processed_projects, directories_to_check, projects_to_move,
                 project_index, stack, walk, sorted_dirs, deleted_count, log,
                 prev_log, faults, call>>

\* The directories and the listings is_project_or_app_folder is asked about.
DirNameUniverse ==
  {"proj", "TestApp.app", "Foo.APP", ".app", "Foo.app.bak", "app"}
ChildUniverse ==
  {".git", "node_modules", "README.md", ".gitignore", ".GIT", "Contents"}
MaxChildren == 2

\* is_project_or_app_folder(dir_path, dir_contents).
Call_is_project_or_app_folder ==
  /\ unit = NoCall
  /\ \E dir_name \in DirNameUniverse :
       \E dir_contents \in {X \in SUBSET ChildUniverse :
                               Cardinality(X) <= MaxChildren} :
         unit' = Called("is_project_or_app_folder",
                        <<Join(In, dir_name), dir_contents>>,
                        is_project_or_app_folder(Join(In, dir_name),
                                                 dir_contents))
  /\ UNCHANGED <<fs, fs0, args, paths, pc, raised, result, progress,
                 processed_projects, directories_to_check, projects_to_move,
                 project_index, stack, walk, sorted_dirs, deleted_count, log,
                 prev_log, faults, call>>

NextUnit ==
  \/ Call_generate_unique_filename
  \/ Call_categorize_and_move_file
  \/ Call_get_category_for_file
  \/ Call_is_project_or_app_folder

SpecUnit == InitUnit /\ [][NextUnit]_vars

TypeOK ==
  /\ pc \in {"call", "count", "discover", "projects", "walk",
             "cleanup", "report", "done"}
  /\ result \in BOOLEAN
  /\ call \in {1, 2}

\* ================================================================ claims
\* The move records of a log.
Moves(l) == {e \in l : e.kind \in {"project", "file"}}
FailedMoves(l) == {e \in Moves(l) : ~e.ok}

\* The sources of the relocations identify_projects has listed.
Sources == {projects_to_move[i][1] : i \in DOMAIN projects_to_move}

\* The output directory the call was given lies outside the input directory.
OutputOutside == ~IsPrefix(input_dir_str, output_dir_str)

\* The call passed validation and went through its phases to its return.
Completed == pc = "done" /\ raised = ""

\* The call passed validation.
PassedValidation == input_dir # <<>>

\* ---------------------------------------------------------------------- C1
\* C1: an output path given explicitly that is a strict descendant of the
\* input directory is rejected: validation raises ValueError and sort_files
\* returns False without running any phase.
C1_NestedOutputRejected ==
  ( /\ pc # "call"
    /\ Listable(fs0, input_dir_str)
    /\ output_dir_str # <<>>
    /\ InParents(input_dir_str, output_dir_str) )
  => (raised = "ValueError" /\ pc = "done" /\ result = FALSE)

\* ---------------------------------------------------------------------- C2
\* The input path does not exist, is no directory, cannot be read, or is the
\* output path.
StructuralFailure ==
  \/ ~Exists(fs0, input_dir_str)
  \/ ~IsDir(fs0, input_dir_str)
  \/ ~fs0[input_dir_str].readable
  \/ output_dir_str = input_dir_str

\* No phase has taken a step: nothing discovered, moved, walked or deleted.
NoPhaseRan ==
  /\ fs = fs0
  /\ log = {}
  /\ progress = NoProgress
  /\ projects_to_move = <<>> /\ processed_projects = {}
  /\ directories_to_check = {} /\ stack = <<>>
  /\ deleted_count = 0

\* C2: on a structural validation failure sort_files returns False at once:
\* no phase takes a step and the trees are as they were before the call.
C2_ValidationFailureChangesNothing ==
  (StructuralFailure /\ pc # "call")
  => (pc = "done" /\ result = FALSE /\ raised # "" /\ NoPhaseRan)

\* The call with the input as its output has returned.
C2_Witness ==
  /\ pc = "done" /\ raised = "ValueError"
  /\ output_dir_str = input_dir_str
  /\ Children(fs, input_dir_str) # {}

\* ---------------------------------------------------------------------- C3
\* Everything that was at or beneath p when the call began is still there.
InPlace(p) ==
  \A q \in Subtree(fs0, p) : q \in DOMAIN fs /\ fs[q].id = fs0[q].id

\* C3: a project whose move failed is, at the end of the run, still whole at
\* its original place (none of its files went to a category folder, none of
\* its directories was deleted), and the run counted an error.
C3_FailedProjectLeftInPlace ==
  (Completed /\ OutputOutside)
  => \A e \in log : (e.kind = "project" /\ ~e.ok)
       => (InPlace(e.source) /\ progress.errors >= 1)

\* ---------------------------------------------------------------------- C4
\* C4: identify_projects' list never holds two sources of which one is the
\* other or an ancestor of the other.
C4_NoNestedClaims ==
  \A i, j \in DOMAIN projects_to_move :
    i # j => ~IsPrefix(projects_to_move[i][1], projects_to_move[j][1])

\* p is a directory that the classifier takes for a project.
ProjectLike(f, p) ==
  /\ IsDir(f, p)
  /\ Truthy(cache_directory_contents(f, p))
  /\ is_project_or_app_folder(p, ListNames(f, p))

\* Discovery is over and a claimed directory holds a project-like directory.
C4_Witness ==
  /\ pc = "projects" /\ project_index = 1
  /\ \E src \in Sources :
       \E q \in DOMAIN fs : InParents(src, q) /\ ProjectLike(fs, q)

\* ---------------------------------------------------------------------- C5
\* C5: in a dry run the filesystem is at every moment what it was when the
\* call began: nothing moved, nothing created under the output root, nothing
\* deleted, whatever delete_empty_dirs says.
C5_DryRunMutatesNothing == dry_run => fs = fs0

\* A dry run with delete_empty_dirs has returned, after deciding the move of
\* a project and of a file.
C5_Witness ==
  /\ dry_run /\ delete_empty_dirs /\ Completed
  /\ \E e \in log : e.kind = "project"
  /\ \E e \in log : e.kind = "file"
  /\ directories_to_check # {}

\* ---------------------------------------------------------------------- C6
\* What a log decided: which item goes where.
Decisions(l) ==
  {[kind |-> e.kind, source |-> e.source, target |-> e.target] : e \in Moves(l)}

\* C6: a dry run and the real run of the same tree that follows it decide
\* the same moves: the same directories are projects, and every project and
\* every loose file has the same destination path in both.
C6_DryRunDecidesAsRealRun ==
  (call = 2 /\ Completed /\ OutputOutside /\ progress.errors = 0)
  => Decisions(log) = Decisions(prev_log)

\* ---------------------------------------------------------------------- C7
\* p lies in a directory, the input root included, that is a project.
UnderProject(f, p) ==
  \E n \in Len(input_dir)..(Len(p) - 1) : ProjectLike(f, SubSeq(p, 1, n))

\* The files named n of the input tree as it was, none under a project.
LooseNamed(n) ==
  {p \in DOMAIN fs0 : /\ fs0[p].kind = "file"
                      /\ Name(p) = n
                      /\ InParents(input_dir, p)
                      /\ ~UnderProject(fs0, p)}

FileNames == {Name(p) : p \in {q \in DOMAIN fs0 : fs0[q].kind = "file"}}

\* The name n with the disambiguator k: 'stem (k)ext'.
Disambiguated(n, k) ==
  PathStem(n) \o " (" \o Decimal(k) \o ")" \o PathSuffix(n)

\* The name n and its disambiguated forms.
Variants(n) ==
  {n} \cup {Disambiguated(n, k) : k \in 1..Cardinality(FileIds(fs0))}

\* Every file of L is, as a file of its own, directly in the category folder
\* of the name n, under a name of `names`.
AllKept(L, n, names) ==
  \A p \in L :
    \E q \in DOMAIN fs :
      /\ fs[q].kind = "file" /\ fs[q].id = p
      /\ Parent(q) = output_dir \o get_category_for_file(n)
      /\ Name(q) \in names

\* The names of several loose files.
SharedNames == {n \in FileNames : Cardinality(LooseNamed(n)) >= 2}

\* Every directory of the tree as it was can be listed.
AllListable == \A p \in DOMAIN fs0 : fs0[p].kind = "dir" => fs0[p].readable

ProjectHome(source) ==
  Join(Join(output_dir, "Applications_And_Projects"), Name(source))

\* C8: at the end of a real run every project counted as moved is, with
\* everything that was beneath it, at <output>/Applications_And_Projects/<name>.
C8_MovedProjectAtItsHome ==
  (Completed /\ ~dry_run /\ OutputOutside)
  => \A e \in log : (e.kind = "project" /\ e.ok)
       => \A q \in Subtree(fs0, e.source) :
            LET h == Rebase(q, e.source, ProjectHome(e.source))
            IN h \in DOMAIN fs /\ fs[h].id = fs0[q].id

\* ---------------------------------------------------------------------- C9
\* C9, as claimed: a run that passed validation returns True exactly when its
\* error count is zero.
C9_SuccessIffNoErrors_Original ==
  (pc = "done" /\ PassedValidation) => result = (progress.errors = 0)

\* C9, amended: a run that passed validation returns True exactly when its
\* error count is zero and no unexpected exception ended it; a run that went
\* through its phases returns True exactly when no move of a file or project
\* failed; a run over an empty input directory returns True.
C9_SuccessIffNoErrors ==
  (pc = "done" /\ PassedValidation)
  => /\ result = (progress.errors = 0 /\ raised = "")
     /\ raised = "" => result = (FailedMoves(log) = {})
     /\ Children(fs0, input_dir) = {} => result

\* A run has returned False with no error counted, ended by an exception
\* after it had moved a file.
C9_Witness ==
  /\ pc = "done" /\ PassedValidation /\ raised = "OSError"
  /\ ~result /\ progress.errors = 0 /\ progress.files_moved >= 1

\* --------------------------------------------------------------------- C10
\* C10, as claimed: a run in which a directory could not be listed during
\* Discovery, a file or a project could not be moved, or a directory could
\* not be deleted, does not report success.
C10_EveryFailureCounted_Original ==
  (Completed /\ \E e \in log : ~e.ok) => ~result

\* C10, amended: the error count is the number of failed moves of files and
\* projects, so a run with a failed move does not report success; a failure
\* to list or to delete a directory is logged and not counted.
C10_MoveFailuresCounted ==
  /\ progress.errors = Cardinality(FailedMoves(log))
  /\ (pc = "done" /\ FailedMoves(log) # {}) => ~result

\* A run has returned in which a directory could not be listed, a file could
\* not be moved, and only the latter was counted.
C10_Witness ==
  /\ Completed
  /\ \E e \in log : e.kind = "list"
  /\ \E e \in log : e.kind = "file" /\ ~e.ok
  /\ progress.errors = 1

\* --------------------------------------------------------------------- C11
\* The directories left strictly beneath the input root.
LeftBehind == {d \in DOMAIN fs : fs[d].kind = "dir" /\ InParents(input_dir, d)}

\* d holds, directly or deeper, a file: an item that was not moved.
HoldsFile(d) == \E q \in Subtree(fs, d) : fs[q].kind = "file"

\* d is, holds or is inside a directory that could not be listed or could not
\* be deleted.
HoldsStuck(d) ==
  \E e \in DOMAIN fs :
    /\ fs[e].kind = "dir"
    /\ IsPrefix(d, e) \/ IsPrefix(e, d)
    /\ \/ ~fs[e].readable
       \/ \E r \in log : r.kind = "delete" /\ r.source = e

\* A real run with delete_empty_dirs went through its phases, its output
\* outside its input.
FullRun == Completed /\ ~dry_run /\ delete_empty_dirs /\ OutputOutside

\* C11, as claimed: after a full real run with delete_empty_dirs every
\* directory left beneath the input root still holds an item that was not
\* moved; no empty directory remains there.
C11_NoEmptyDirLeft_Original ==
  FullRun => \A d \in LeftBehind : HoldsFile(d)

\* C11, amended: every directory left beneath the input root holds an item
\* that was not moved, or is, holds or is inside a directory that could not
\* be listed (the walk never went into it) or whose deletion failed.
C11_NoEmptyDirLeft ==
  FullRun => \A d \in LeftBehind : HoldsFile(d) \/ HoldsStuck(d)

\* A full run has deleted a directory inside another that it then deleted too.
C11_Witness ==
  /\ FullRun /\ deleted_count >= 2
  /\ \E d \in DOMAIN fs0 : fs0[d].kind = "dir" /\ InParents(input_dir, Parent(d))
                          /\ d \notin DOMAIN fs /\ Parent(d) \notin DOMAIN fs

\* --------------------------------------------------------------------- C12
\* What a step of Reclamation removes.
Removed == DOMAIN fs \ DOMAIN fs'

\* A step of Reclamation removes only an empty candidate that is not the
\* input root, counts what it removes, touches nothing else and records no
\* error; it leaves a candidate that is not empty as it is, without a word.
CleanupStepMay ==
  /\ DOMAIN fs' \subseteq DOMAIN fs
  /\ \A q \in DOMAIN fs' : fs'[q] = fs[q]
  /\ \A d \in Removed :
       /\ d \in directories_to_check /\ d \in sorted_dirs
       /\ fs[d].kind = "dir" /\ Children(fs, d) = {}
       /\ d # input_dir
  /\ deleted_count' = deleted_count + Cardinality(Removed)
  /\ progress' = progress
  /\ \A d \in sorted_dirs \ sorted_dirs' :
       (d \notin DOMAIN fs \/ Children(fs, d) # {}) => (fs' = fs /\ log' = log)

\* Once Reclamation has begun its count is the number of candidates gone.
CountIsRemoved ==
  (pc \in {"cleanup", "report", "done"} /\ PassedValidation /\ raised = "")
  => deleted_count =
       Cardinality({d \in directories_to_check : d \notin DOMAIN fs})

\* C12: cleanup_empty_directories removes a directory only if it is a
\* candidate, empty when examined and not the input root; a candidate that is
\* gone or not empty is skipped without error; the count returned is the
\* number of directories removed.
C12_CleanupDeletesOnlyWhatItMay ==
  /\ [][pc = "cleanup" => CleanupStepMay]_vars
  /\ []CountIsRemoved

\* Reclamation is over: it removed a directory and skipped one that was not
\* empty.
C12_Witness ==
  /\ pc = "report" /\ deleted_count >= 1
  /\ \E d \in directories_to_check :
       d # input_dir /\ d \in DOMAIN fs /\ Children(fs, d) # {}

\* --------------------------------------------------------------------- C13
\* generate_unique_filename has been called by itself.
UniqueCalled == unit.fn = "generate_unique_filename"

\* The numbers among which the smallest free one lies: with N entries in the
\* directory at most N of the first N + 1 disambiguated names are taken.
Numbers(f, t) ==
  LET N == Cardinality(Children(f, Parent(t)))
  IN 1..(IF N + 1 < MaxCollisions THEN N + 1 ELSE MaxCollisions)

\* The numbers whose disambiguated name of the path t is free; there is one
\* exactly when fewer than MaxCollisions disambiguated names are taken.
FreeNumbers(f, t) ==
  {k \in Numbers(f, t) :
     ~Exists(f, Join(Parent(t), Disambiguated(Name(t), k)))}

\* C13: generate_unique_filename returns the path asked for when nothing is
\* there; otherwise, fewer than 10,000 disambiguated names being taken, it
\* returns 'stem (n)ext' in the same directory for the smallest n >= 1 whose
\* path is free; what it returns is not taken.
C13_UniqueNameIsSmallestFree ==
  UniqueCalled
  => LET t == unit.args[1]
         r == unit.value
         free == FreeNumbers(fs, t)
     IN /\ ~Exists(fs, t) => r = t
        /\ (Exists(fs, t) /\ free # {})
             => r = Join(Parent(t),
                         Disambiguated(Name(t),
                                       CHOOSE n \in free : \A m \in free : n <= m))
        /\ free # {} => ~Exists(fs, r)

\* Asked for test.txt with test.txt and test (1).txt there, the function has
\* returned test (2).txt.
C13_Witness ==
  /\ UniqueCalled
  /\ Exists(fs, Join(CategoryDir, "test.txt"))
  /\ Exists(fs, Join(CategoryDir, "test (1).txt"))
  /\ unit.args = <<Join(CategoryDir, "test.txt")>>
  /\ unit.value = Join(CategoryDir, "test (2).txt")

\* --------------------------------------------------------------------- C14
\* Where categorize_and_move_file, called by itself, would put its file.
Wanted == Join(CategoryDir, Name(SourceFile))

\* The path t and every disambiguated name of it up to the bound are taken.
AllTaken(f, t) == Exists(f, t) /\ FreeNumbers(f, t) = {}

\* C14: the search for a free name tries the numbers 1 to 10,000 and no
\* more: with only the last of them free it returns that one, with all of
\* them taken it returns the path asked for, taken as it is; and
\* categorize_and_move_file then moves its file to that path.
C14_SearchIsBounded ==
  /\ UniqueCalled
       => LET t == unit.args[1]
              r == unit.value
          IN /\ AllTaken(fs, t) => r = t
             /\ (Exists(fs, t) /\ FreeNumbers(fs, t) = {MaxCollisions})
                  => r = Join(Parent(t), Disambiguated(Name(t), MaxCollisions))
  /\ (unit.fn = "categorize_and_move_file" /\ AllTaken(fs0, Wanted))
       => /\ unit.value = <<Wanted, TRUE>>
          /\ ~Exists(fs, SourceFile)
          /\ fs[Wanted].id = SourceFile

\* The file has been moved onto the path asked for, every name being taken.
C14_Witness ==
  /\ unit.fn = "categorize_and_move_file"
  /\ AllTaken(fs0, Wanted)
  /\ unit.value[1] = Wanted

\* --------------------------------------------------------------------- C15
\* The part of a name after its last '.', case-folded; absent (FALSE) when
\* there is no '.' in it.
AfterLastDot(name) ==
  LET i == RFind(name, ".")
  IN IF i = 0 THEN [present |-> FALSE, ext |-> ""]
     ELSE [present |-> TRUE, ext |-> Lower(SubSeq(name, i + 1, Len(name)))]

\* The same, absent as well when the last '.' is the first character of the
\* name: a name like '.txt' or '.env' has no extension.
AfterInnerDot(name) ==
  IF RFind(name, ".") = 1 THEN [present |-> FALSE, ext |-> ""]
  ELSE AfterLastDot(name)

\* The category of the table for an extension, the default one without.
CategoryOf(e) ==
  IF e.present /\ e.ext \in DOMAIN FILE_CATEGORIES
    THEN FILE_CATEGORIES[e.ext] ELSE DEFAULT_CATEGORY

CategoryCalled == unit.fn = "get_category_for_file"

\* C15, as claimed: get_category_for_file returns the category configured for
\* the case-folded part of the name after its last '.', the default category
\* when that is no key of the table or the name has no '.'.
C15_CategoryByExtension_Original ==
  CategoryCalled => unit.value = CategoryOf(AfterLastDot(unit.args[1]))

\* C15, amended: the same, a name whose only '.' is its first character
\* having no extension.
C15_CategoryByExtension ==
  CategoryCalled => unit.value = CategoryOf(AfterInnerDot(unit.args[1]))

\* REPORT.TXT has been given the category of txt.
C15_Witness ==
  /\ CategoryCalled
  /\ unit.args = <<"REPORT.TXT">>
  /\ unit.value = FILE_CATEGORIES["txt"]

\* --------------------------------------------------------------------- C16
ClassifierCalled == unit.fn = "is_project_or_app_folder"

\* The name is something followed by a configured application-bundle suffix.
HasBundleSuffix(name) ==
  \E suffix \in SPECIAL_APP_DIRS_AS_FILES :
    \E n \in 0..Len(name) : name = SubSeq(name, 1, n) \o suffix

\* A child's name is a configured marker, of either kind.
HasMarker(children) ==
  children \cap (PROJECT_FILE_MARKERS \cup PROJECT_DIR_MARKERS) # {}

\* C16: is_project_or_app_folder is true exactly when the directory's name
\* ends with a configured application-bundle suffix or a child's name is a
\* configured marker: a directory holding .git is a project whatever else it
\* holds, one named Foo.app is one with no marker inside, one with neither is
\* none.
C16_ClassifierRule ==
  ClassifierCalled
  => LET name == Name(unit.args[1])
         children == unit.args[2]
     IN /\ unit.value = (HasBundleSuffix(name) \/ HasMarker(children))
        /\ ".git" \in children => unit.value
        /\ name = "TestApp.app" => unit.value

\* A directory named TestApp.app without a child has been taken for a project.
C16_Witness ==
  /\ ClassifierCalled
  /\ Name(unit.args[1]) = "TestApp.app" /\ unit.args[2] = {}
  /\ unit.value = TRUE

\* --------------------------------------------------------------------- C17
\* Something failed in a phase of the call: a listing, a move, a deletion, a
\* lookup.
SomethingFailed == \E e \in log : ~e.ok

\* C17, as claimed: a call that passed validation hands no exception to its
\* caller; it returns a boolean, and False when anything failed in a phase.
C17_NothingPropagates_Original ==
  /\ pc # "propagated"
  /\ (pc = "done" /\ PassedValidation)
       => (result \in BOOLEAN /\ (SomethingFailed => result = FALSE))

\* C17, amended: a call that passed validation hands no exception to its
\* caller: it is never left by an exception, and it returns a boolean; it
\* returns False when a move failed or an exception ended it in the
\* catch-all, while a directory that could not be listed or deleted leaves
\* the result as it is.
C17_NothingPropagates ==
  /\ pc # "propagated"
  /\ (pc = "done" /\ PassedValidation)
       => /\ result \in BOOLEAN
          /\ (FailedMoves(log) # {} \/ raised # "") => result = FALSE
          /\ (FailedMoves(log) = {} /\ raised = "") => result = TRUE

\* A dry run has been ended by an exception and has returned False.
C17_Witness ==
  /\ pc = "done" /\ PassedValidation /\ dry_run
  /\ raised = "OSError" /\ result = FALSE

\* --------------------------------------------------------------------- C18
\* The phases of a call in their order.
PhaseRank(p) ==
  CASE p = "call" -> 0
    [] p = "count" -> 1
    [] p = "discover" -> 2
    [] p = "projects" -> 3
    [] p = "walk" -> 4
    [] p = "cleanup" -> 5
    [] p = "report" -> 6
    [] OTHER -> 7

Records(l, kind) == {e \in l : e.kind = kind}

\* What each phase has finished once the call is past it.
PhasesFinished ==
  /\ PhaseRank(pc) \in 4..6
       => \A i \in DOMAIN projects_to_move :
            \E e \in Records(log, "project") : e.source = projects_to_move[i][1]
  /\ PhaseRank(pc) \in 5..6 => files = {} /\ stack = <<>>
  /\ PhaseRank(pc) < 3 => Records(log, "project") = {}
  /\ PhaseRank(pc) < 4 => Records(log, "file") = {}
  /\ PhaseRank(pc) < 5 => deleted_count = 0 /\ Records(log, "delete") = {}

\* A step stays in its phase or goes on to a later one, and does the work of
\* its own phase only.
StepInPhase ==
  /\ PhaseRank(pc) <= PhaseRank(pc')
  /\ projects_to_move' # projects_to_move => pc = "discover"
  /\ (Records(log', "project") # Records(log, "project")
        \/ processed_projects' # processed_projects) => pc = "projects"
  /\ Records(log', "file") # Records(log, "file") => pc = "walk"
  /\ (deleted_count' # deleted_count
        \/ Records(log', "delete") # Records(log, "delete")) => pc = "cleanup"
  /\ (pc' = "done" /\ raised' = "") => pc = "report"

\* C18: the phases follow one another without going back: Discovery is over
\* before the first project is moved, every project has been attempted
\* before the first file is examined, every file is decided before the
\* first directory is deleted, and the report comes last.
C18_PhasesInOrder == []PhasesFinished /\ [][StepInPhase]_vars

\* A run has completed that moved a project and then a file and then
\* deleted a directory.
C18_Witness ==
  /\ Completed
  /\ Records(log, "project") # {} /\ Records(log, "file") # {}
  /\ deleted_count > 0

\* --------------------------------------------------------------------- C19
\* The files the File Relocation Pass has attempted to move.
AttemptedFiles == {e.source : e \in Records(log, "file")}

\* How many attempts it has counted.
FileAttempts == progress.processed_items - Len(projects_to_move)

\* The regular files of the input tree that are not under a claimed path.
LooseFiles ==
  {p \in DOMAIN fs0 : /\ fs0[p].kind = "file"
                      /\ InParents(input_dir, p)
                      /\ ~Claimed(processed_projects, p)}

\* The directories from the input root down to p can all be listed.
WalkReaches(p) ==
  \A d \in DOMAIN fs0 : (IsPrefix(input_dir, d) /\ InParents(d, p))
                           => fs0[d].readable

\* The File Relocation Pass is over.
WalkOver == PassedValidation /\ PhaseRank(pc) \in 5..7

\* A failed move leaves the pass where it is, the other files of the
\* directory still to come.
FailureGoesOn ==
  FailedMoves(Records(log', "file")) # FailedMoves(Records(log, "file"))
    => /\ pc' = "walk" /\ stack' = stack
       /\ \E filename \in files : files' = files \ {filename}

Handled(filename) ==
  /\ pc = "walk" /\ filename \in files /\ files' = files \ {filename}
  /\ ~Claimed(processed_projects, Join(current_root_path, filename))

\* This step counts the file once: as handled, and as moved when it moved it
\* (or would have, in a dry run), as an error when it could not.
Counted(file_path) ==
  LET moved == IF dry_run THEN fs' = fs ELSE ~Exists(fs', file_path)
  IN /\ moved => progress' = [progress EXCEPT !.processed_items = @ + 1,
                                              !.files_moved = @ + 1]
     /\ ~moved => progress' = [progress EXCEPT !.processed_items = @ + 1,
                                               !.errors = @ + 1]
     /\ deleted_count' = deleted_count

\* This step is ended by an exception caught by the catch-all.
CutShort == pc' = "done" /\ raised' # "" /\ result' = FALSE

\* C20, as claimed: each loose file handled adds one to processed_items and
\* one to files_moved when it was moved, or would have been in a dry run, one
\* to errors when it was not; no other counter changes.
C20_OneCountPerFile_Original ==
  [][\A filename \in files :
       Handled(filename) => Counted(Join(current_root_path, filename))]_vars

\* C20, amended: each loose file handled adds one to processed_items and one
\* to files_moved when it was moved, or would have been in a dry run, one to
\* errors when its move failed, no other counter changing; or else its
\* handling is cut short by an exception that ends the run, no counter
\* changing at all.
C20_OneCountPerFile ==
  [][\A filename \in files :
       Handled(filename)
         => IF CutShort
              THEN progress' = progress /\ deleted_count' = deleted_count
              ELSE Counted(Join(current_root_path, filename))]_vars

\* Two files have been handled: one was moved, the move of the other failed.
C20_Witness ==
  /\ PassedValidation /\ ~dry_run /\ projects_to_move = <<>>
  /\ progress.processed_items = 2
  /\ progress.files_moved = 1 /\ progress.errors = 1

\* --------------------------------------------------------------------- C21
\* Discovery is over.
Discovered == PassedValidation /\ PhaseRank(pc) >= 3

\* The application bundles of the input tree that Discovery can come to:
\* listable directories of a bundle name, all directories above them
\* listable, none above them listed as a project.
Bundles ==
  {d \in DOMAIN fs0 : /\ IsPrefix(input_dir, d)
                      /\ Listable(fs0, d)
                      /\ HasBundleSuffix(Name(d))
                      /\ WalkReaches(d)
                      /\ ~\E q \in Sources : InParents(q, d)}

\* C21: when Discovery is over, every application bundle of the input tree
\* is listed as a project relocation, an empty one included.
C21_EveryBundleListed == Discovered => Bundles \subseteq Sources

\* --------------------------------------------------------------------- C22
\* C22: once identify_projects has returned, the claimed set holds the source
\* of every relocation it listed, whatever becomes of the project's move.
C22_DiscoveryClaimsSources == Discovered => Sources \subseteq processed_projects

\* --------------------------------------------------------------------- C23
\* C23: the same tree sorted again for real, neither run with a failure,
\* leaves every project where the first run left it, in whatever order the
\* directories were visited.
C23_HomesIndependentOfOrder ==
  ( /\ call = 2 /\ Completed /\ ~dry_run
    /\ faults = 0 /\ progress.errors = 0 )
  => \A e \in Records(prev_log, "home") : Where(fs, e.source) = e.target

\* --------------------------------------------------------------------- C24
\* A step of Reclamation examines a candidate with no candidate beneath it
\* still to come.
ExaminedAfterBeneath ==
  pc = "cleanup"
    => \A d \in sorted_dirs \ sorted_dirs' :
         \A e \in sorted_dirs' : ~InParents(d, e)

\* Reclamation is over, and every candidate still there and empty is the
\* input root or one whose deletion failed: one pass was enough.
OnePassEnough ==
  (PassedValidation /\ raised = "" /\ PhaseRank(pc) >= 6
     /\ ~dry_run /\ delete_empty_dirs)
  => \A d \in directories_to_check \ {input_dir} :
       (IsDir(fs, d) /\ Children(fs, d) = {})
         => \E r \in Records(log, "delete") : r.source = d

\* C24: Reclamation examines a candidate only after the candidates beneath
\* it, so a directory emptied by the removal of its children is removed in
\* the same pass.
C24_DeepestFirst == [][ExaminedAfterBeneath]_vars /\ []OnePassEnough

\* Reclamation is over: it removed a candidate and then the candidate above
\* it.
C24_Witness ==
  /\ pc = "report" /\ ~dry_run /\ delete_empty_dirs
  /\ \E d \in directories_to_check :
       /\ Parent(d) \in directories_to_check /\ Parent(d) # input_dir
       /\ d \notin DOMAIN fs /\ Parent(d) \notin DOMAIN fs

\* --------------------------------------------------------------------- C25
\* The directories of the input tree that cannot be listed.
Unlistable ==
  {d \in DOMAIN fs0 : IsPrefix(input_dir, d) /\ IsDir(fs0, d) /\ ~Listable(fs0, d)}

\* The directories Discovery has to classify: those it can come to, every
\* directory above them listable and none of them listed as a project.
ToClassify ==
  {d \in DOMAIN fs0 : /\ IsPrefix(input_dir, d) /\ IsDir(fs0, d)
                      /\ WalkReaches(d)
                      /\ ~\E q \in Sources : InParents(q, d)}

\* C25: when Discovery is over, no directory that cannot be listed has a
\* relocation, nor anything beneath one, and every directory to classify that
\* the classifier takes for a project has one: a directory that cannot be
\* listed costs its siblings and their descendants nothing.
C25_UnlistableIsNoProject ==
  Discovered
    => /\ \A s \in Sources : \A d \in Unlistable : ~IsPrefix(d, s)
       /\ \A d \in ToClassify : ProjectLike(fs0, d) => d \in Sources

\* Discovery is over: it met a directory that holds something and cannot be
\* listed, and listed a sibling of it as a project.
C25_Witness ==
  /\ pc = "projects" /\ project_index = 1
  /\ \E d \in Unlistable :
       /\ Children(fs0, d) # {}
       /\ \E s \in Sources : s # d /\ Parent(s) = Parent(d)

\* --------------------------------------------------------------------- C26
\* What lies ahead of a walk whose pending directories are those of st: they
\* and everything beneath them.
Ahead(f, st) ==
  LET pending == UNION {st[i] : i \in DOMAIN st}
  IN pending \cup {q \in DOMAIN f : \E d \in pending : IsPrefix(d, q)}

\* A file that is in the category folder of its name: handling it again
\* leaves it in its directory.
Settled(out, p) == Parent(p) = out \o get_category_for_file(Name(p))

\* The work a phase has still before it, in the state of the given values.
\* A file that is not settled weighs more than what its move can put ahead
\* of the walk: the file, settled, and the directories made for it.
WorkLeft(at, f, st, root, names, out, list, index, candidates) ==
  CASE at = "discover" -> Cardinality(Ahead(f, st))
    [] at = "projects" -> Len(list) + 1 - index
    [] at = "walk" ->
         LET ahead == Ahead(f, st)
             inhand == {Join(root, n) : n \in names}
             F == {q \in ahead \cap DOMAIN f : f[q].kind # "dir"} \cup inhand
         IN Cardinality(ahead \cup inhand)
              + 3 * Cardinality({q \in F : ~Settled(out, q)})
    [] at = "cleanup" -> Cardinality(candidates)
    [] OTHER -> 0

\* What is left of the call: the phases to come, then the work of this one.
Left(at, f, st, root, names, out, list, index, candidates) ==
  (7 - PhaseRank(at)) * 1000
    + WorkLeft(at, f, st, root, names, out, list, index, candidates)

\* What is left before a step and after it.
Variant ==
  Left(pc, fs, stack, current_root_path, files, output_dir,
       projects_to_move, project_index, sorted_dirs)

LessLeft ==
  Left(pc', fs', stack', current_root_path', files', output_dir',
       projects_to_move', project_index', sorted_dirs') < Variant

\* The call has a step to take.
CanStep ==
  \/ pc \in {"call", "count", "projects", "report"}
  \/ pc = "discover" /\ (stack = <<>> \/ Head(stack) # {})
  \/ pc = "walk" /\ (files # {} \/ stack = <<>> \/ Head(stack) # {})
  \/ pc = "cleanup" /\ (sorted_dirs = {} \/ Deepest(sorted_dirs) # {})

\* Until it returns the call has a step to take.
GoesOn == pc # "done" => (CanStep /\ Variant >= (7 - PhaseRank(pc)) * 1000)

\* C26, as claimed: every call that passed validation comes to its final
\* report and returns from there, its result True or False as its error
\* count is zero or not: every step leaves less to do, until it returns the
\* call has a step to take, and it returns from the report only.
C26_EveryRunTerminates_Original ==
  /\ [][LessLeft]_vars
  /\ []GoesOn
  /\ []((pc = "done" /\ PassedValidation)
          => (raised = "" /\ result = (progress.errors = 0)))

\* C26, amended: every call that passed validation returns: every step
\* leaves less to do and until it returns the call has a step to take; it
\* returns from its final report, its result True or False as its error count
\* is zero or not, unless an exception caught by the catch-all ended it
\* before, with the result False.
C26_EveryRunTerminates ==
  /\ [][LessLeft]_vars
  /\ []GoesOn
  /\ []((pc = "done" /\ PassedValidation)
          => IF raised = "" THEN result = (progress.errors = 0)
                            ELSE result = FALSE)

\* A real run that handled two items, one of them with a failed move, has
\* come to its report with nothing left to do.
C26_Witness ==
  /\ pc = "report" /\ ~dry_run /\ Variant = 1000
  /\ progress.errors >= 1
  /\ progress.processed_items >= 2

\* --------------------------------------------------------------------- C27
\* C27: when a call that passed validation has returned, the input root is
\* still the directory it was, at its path.
C27_InputRootStays ==
  (pc = "done" /\ PassedValidation)
    => (IsDir(fs, input_dir) /\ fs[input_dir].id = fs0[input_dir].id)

\* --------------------------------------------------------------------- C28
\* C28: when categorize_and_move_file has moved a file, every file there was
\* before is still there, where it was or where it was moved to: the move
\* puts no file in the place of another, not even when the unique-name
\* search has run out of names.
C28_NoFileDestroyed ==
  unit.fn = "categorize_and_move_file"
    => \A p \in DOMAIN fs0 :
         fs0[p].kind = "file"
           => \/ p \in DOMAIN fs /\ fs[p] = fs0[p]
              \/ \E q \in DOMAIN fs : fs[q] = fs0[p]

\* --------------------------------------------------------------------- C29
\* The counters balance: every item handled is counted as a project moved, a
\* file moved or an error.
Balanced ==
  progress.processed_items
    = progress.projects_moved + progress.files_moved + progress.errors

\* No counter goes down.
CountersGrow ==
  /\ progress'.total_items >= progress.total_items
  /\ progress'.processed_items >= progress.processed_items
  /\ progress'.projects_moved >= progress.projects_moved
  /\ progress'.files_moved >= progress.files_moved
  /\ progress'.errors >= progress.errors

\* C29: at every moment of a run, and at its end, processed_items equals
\* projects_moved + files_moved + errors, and no counter ever decreases.
C29_CountersBalance == []Balanced /\ [][CountersGrow]_vars

\* A run has returned that moved a project and failed to move a file.
C29_Witness ==
  /\ pc = "done" /\ PassedValidation
  /\ progress.projects_moved = 1 /\ progress.errors = 1
  /\ progress.processed_items = 2

\* --------------------------------------------------------------------- C30
\* C30: on a tree with at least one item, processed_items never exceeds
\* total_items, the count of the files and directories beneath the input
\* root taken before the run.
C30_ProcessedWithinTotal ==
  (PassedValidation /\ progress.total_items >= 1)
    => progress.processed_items <= progress.total_items

====
